---- MODULE Spec2Model ----
(***************************************************************************)
(* Model of src/magic_target.py: the two-pass prospect scorer.             *)
(*                                                                         *)
(*   Spec      the pipeline of main(): load, base pass, selection of the   *)
(*             top N, final pass (enriched for the selected rows), final   *)
(*             sort and export.                                            *)
(*   SpecEval  one record evaluated by compute_flags_local and by          *)
(*             compute_flags_enriched under one state of the network,      *)
(*             with the trace of the requests the detectors make.          *)
(*   SpecDate  months_since and the months_since_raise field on one        *)
(*             funding-date string.                                        *)
(*                                                                         *)
(* Strings are modelled by what the parsers read in them: a date string by *)
(* its shape and numbers, a free text by its regex matches, a page by the  *)
(* patterns found in it.  Python's None is the empty tuple, a value v is   *)
(* the 1-tuple <<v>>.  Row indexes are 1-based (pandas: 0-based).          *)
(***************************************************************************)
EXTENDS Integers, Sequences, FiniteSets, TLC

VARIABLES
    pc,             \* position of main(): load, base, select, final, export, done, aborted
    df,             \* the input table (line 379), a sequence of rows
    topn,           \* args.topn (line 364)
    serpapi_key,    \* args.serpapi_key is non-empty (line 368)
    total,          \* len(df) (line 380)
    i,              \* the row the running loop is at
    base_rows,      \* line 384
    enrich_index,   \* line 398
    final_rows,     \* line 402
    out,            \* scored_full.csv as written (line 432); <<>> before
    top200,         \* top200.csv as written (line 433); <<>> before
    local_calls,    \* per row, the calls of compute_flags_local so far
    enriched_calls, \* per row, the calls of compute_flags_enriched so far
    e_pc,           \* SpecEval: start, local, done
    e_row,          \* SpecEval: the record
    e_key,          \* SpecEval: a search API key is configured
    e_env,          \* SpecEval: the state of the network
    e_local,        \* SpecEval: the Flags of compute_flags_local
    e_enr,          \* SpecEval: the Flags of compute_flags_enriched
    e_log,          \* SpecEval: the requests made, in order
    d_pc,           \* SpecDate: start, done
    d_in,           \* SpecDate: the funding-date string
    d_m,            \* SpecDate: months_since(d_in)
    d_msr           \* SpecDate: the months_since_raise field

vars == <<pc, df, topn, serpapi_key, total, i, base_rows, enrich_index,
          final_rows, out, top200, local_calls, enriched_calls,
          e_pc, e_row, e_key, e_env, e_local, e_enr, e_log,
          d_pc, d_in, d_m, d_msr>>

pipeVars == <<pc, df, topn, serpapi_key, total, i, base_rows, enrich_index,
              final_rows, out, top200, local_calls, enriched_calls>>
evalVars == <<e_pc, e_row, e_key, e_env, e_local, e_enr, e_log>>
dateVars == <<d_pc, d_in, d_m, d_msr>>

----------------------------------------------------------------------------
(* Bounds of the model *)

MaxRecords == 3
MaxTopN == 3

----------------------------------------------------------------------------
(* Python values *)

None == <<>>
Some(v) == <<v>>
IsNone(o) == o = <<>>
Val(o) == o[1]

Min2(a, b) == IF a <= b THEN a ELSE b
Max2(a, b) == IF a >= b THEN a ELSE b
BoolInt(b) == IF b THEN 1 ELSE 0

----------------------------------------------------------------------------
(* Config (lines 36-44, 286, 433) *)

NOW_YEAR == 2025
NOW_MONTH == 10
SENTINEL == 9999
TOP_ROWS == 200
LINK_CAP == 6
EMP_LO == 200
EMP_HI == 2000
REV_LO == 50
REV_HI == 1000
RECENT_MONTHS == 12
FPNA_CAP == 20
FPNA_MIN == 5

SERIES_GROWTH == {"series b", "series c", "series d", "growth equity", "private equity"}
CAREERS_FALLBACK == <<"/careers", "/jobs", "/career", "/join-us">>

----------------------------------------------------------------------------
(* months_since (lines 49-60).  A date string is                           *)
(*   [shape |-> "empty"]                     "" or blanks                  *)
(*   [shape |-> "dash3", a, b, c]            "a-b-c"                       *)
(*   [shape |-> "slash3", a, b, c]           "a/b/c"                       *)
(*   [shape |-> "month", a, b, c]            "<month name a> b, c"         *)
(*   [shape |-> "dash2", a, b]               "a-b"                         *)
(*   [shape |-> "junk"]                      any other text                *)
(* where a, b, c are the numbers written.  %Y reads exactly 4 digits: a    *)
(* leading field is written without padding beyond 2 digits in "slash3"    *)
(* (a year only from 1000 on) and padded to 4 digits in "dash3", "dash2";  *)
(* the trailing field of "slash3" and "month" is padded to 4 digits.       *)

IsLeap(y) == (y % 4 = 0 /\ y % 100 # 0) \/ y % 400 = 0

DaysIn(y, m) ==
    IF m \in {4, 6, 9, 11} THEN 30
    ELSE IF m = 2 THEN (IF IsLeap(y) THEN 29 ELSE 28)
    ELSE 31

\* datetime(y, m, d) exists: strptime raises ValueError otherwise
ValidDate(y, m, d) ==
    /\ y >= 1 /\ y <= 9999
    /\ m >= 1 /\ m <= 12
    /\ d >= 1 /\ d <= DaysIn(y, m)

\* line 57
MonthsDiff(y, m) == (NOW_YEAR - y) * 12 + (NOW_MONTH - m)

\* what strptime(s, f) gives for the format f: <<year, month>> or None
Strptime(s, f) ==
    CASE f = "%Y-%m-%d" ->
            IF s.shape = "dash3" /\ ValidDate(s.a, s.b, s.c)
            THEN Some(<<s.a, s.b>>) ELSE None
      [] f = "%Y/%m/%d" ->
            IF s.shape = "slash3" /\ s.a >= 1000 /\ ValidDate(s.a, s.b, s.c)
            THEN Some(<<s.a, s.b>>) ELSE None
      [] f = "%d/%m/%Y" ->
            IF s.shape = "slash3" /\ s.a <= 31 /\ ValidDate(s.c, s.b, s.a)
            THEN Some(<<s.c, s.b>>) ELSE None
      [] f = "%m/%d/%Y" ->
            IF s.shape = "slash3" /\ s.a <= 12 /\ ValidDate(s.c, s.a, s.b)
            THEN Some(<<s.c, s.a>>) ELSE None
      [] f \in {"%b %d, %Y", "%B %d, %Y"} ->
            IF s.shape = "month" /\ ValidDate(s.c, s.a, s.b)
            THEN Some(<<s.c, s.a>>) ELSE None
      [] f = "%Y-%m" ->
            IF s.shape = "dash2" /\ ValidDate(s.a, s.b, 1)
            THEN Some(<<s.a, s.b>>) ELSE None
      [] OTHER -> None

fmts == <<"%Y-%m-%d", "%Y/%m/%d", "%d/%m/%Y", "%m/%d/%Y", "%b %d, %Y", "%B %d, %Y", "%Y-%m">>

RECURSIVE TryFormats(_, _)
TryFormats(s, k) ==
    IF k > Len(fmts) THEN None
    ELSE LET dt == Strptime(s, fmts[k])
         IN IF IsNone(dt) THEN TryFormats(s, k + 1)
            ELSE Some(MonthsDiff(Val(dt)[1], Val(dt)[2]))

months_since(date_str) ==
    IF date_str.shape = "empty" THEN None ELSE TryFormats(date_str, 1)

\* lines 286 / 356: m if m is not None else 9999
MonthsSinceRaise(m) == IF IsNone(m) THEN SENTINEL ELSE Val(m)

----------------------------------------------------------------------------
(* parse_emp_range (lines 91-102).  The text is                            *)
(*   [shape |-> "plus", a]      ends with "+", its digits read a           *)
(*   [shape |-> "range", a, b]  "a-b" or "a to b"                          *)
(*   [shape |-> "digits", a]    any other text, its digits read a          *)
(*   [shape |-> "nodigits"]     a text without a digit                     *)

parse_emp_range(s) ==
    CASE s.shape = "plus" -> <<Some(s.a), None>>
      [] s.shape = "range" -> <<Some(s.a), Some(s.b)>>
      [] s.shape = "digits" -> <<Some(s.a), Some(s.a)>>
      [] OTHER -> <<None, None>>

(* parse_money_range_usd (lines 62-89), amounts in millions of USD.        *)
(*   [shape |-> "empty"]           "" or blanks                            *)
(*   [shape |-> "unknown"]         contains UNKNOWN, or is "-", "N/A", "NA" *)
(*   [shape |-> "range", a, b]     "$aM-$bM"                               *)
(*   [shape |-> "plus", a]         "$aM" or "$aM+"                         *)
(*   [shape |-> "free", a, b]      other text, its amounts span a..b       *)
(*   [shape |-> "junk"]            other text, no amount with a suffix     *)

parse_money_range_usd(s) ==
    CASE s.shape \in {"empty", "unknown"} -> <<None, None>>
      [] s.shape = "range" -> <<Some(s.a), Some(s.b)>>
      [] s.shape = "plus" -> <<Some(s.a), None>>
      [] s.shape = "free" -> <<Some(Min2(s.a, s.b)), Some(Max2(s.a, s.b))>>
      [] OTHER -> <<None, None>>

\* yn (lines 104-110) on the stripped, lower-cased cell
yn(v) ==
    IF v \in {"yes", "y", "true", "t", "1", "actively hiring", "hiring"} THEN TRUE
    ELSE IF v \in {"no", "n", "false", "f", "0"} THEN FALSE
    ELSE FALSE

----------------------------------------------------------------------------
(* A row of the input table, as the evaluators read it:                    *)
(*   name      "Organization Name", stripped                               *)
(*   website   "Website" or "Organization Name URL"; "" when both empty    *)
(*   ipo       "IPO Status", stripped and lower-cased                      *)
(*   ftype     "Last Funding Type", stripped and lower-cased               *)
(*   fdate     "Last Funding Date", a date string                          *)
(*   hiring    "Actively Hiring", stripped and lower-cased                 *)
(*   mentions  the matches of RX_FPNA in departments + description         *)
(*   sf, lk    RX_SF, RX_LK match in departments + description             *)
(*   emp       "Number of Employees";  rev  "Estimated Revenue Range"      *)

\* lines 245-249 / 302-306
SizeOK(emp_min, emp_max) ==
    IF ~IsNone(emp_min) /\ ~IsNone(emp_max)
    THEN Val(emp_min) <= EMP_HI /\ Val(emp_max) >= EMP_LO
    ELSE IF ~IsNone(emp_min)
    THEN EMP_LO <= Val(emp_min) /\ Val(emp_min) <= EMP_HI
    ELSE FALSE

\* lines 252-255 / 309-312
GrowthOK(row, m) ==
    LET hiring == yn(row.hiring)
        recent_raise == ~IsNone(m) /\ Val(m) <= RECENT_MONTHS
        series_ok == row.ipo \notin {"public"} /\ row.ftype \in SERIES_GROWTH
    IN hiring \/ recent_raise \/ series_ok

\* lines 258-259 / 317-318: min(20, mentions * 2)
LocalFpnaCount(row) == Min2(FPNA_CAP, row.mentions * 2)

\* line 266 / 336
LocalStack(row) == row.sf \/ row.lk

\* lines 269-275 / 339-345; an absent upper bound is 9e18, above every lo
MidOK(rev_min, rev_max, size_ok) ==
    IF ~IsNone(rev_min) \/ ~IsNone(rev_max)
    THEN LET rlo == IF ~IsNone(rev_min) THEN Val(rev_min) ELSE 0
         IN rlo <= REV_HI /\ (IsNone(rev_max) \/ Val(rev_max) >= REV_LO)
    ELSE size_ok

\* lines 277 / 347: sum([size_ok, growth_ok, fpna_ok, jobs_ok, stack_ok, mid_ok])
ScoreSum_DropsMid(size_ok, growth_ok, fpna_ok, jobs_ok, stack_ok, mid_ok) ==
    BoolInt(size_ok) + BoolInt(growth_ok) + BoolInt(fpna_ok)
        + BoolInt(jobs_ok) + BoolInt(stack_ok)

ScoreSum(size_ok, growth_ok, fpna_ok, jobs_ok, stack_ok, mid_ok) ==
    BoolInt(size_ok) + BoolInt(growth_ok) + BoolInt(fpna_ok)
        + BoolInt(jobs_ok) + BoolInt(stack_ok) + BoolInt(mid_ok)

\* the dict returned at lines 278-287 / 348-357
Flags(size_ok, growth_ok, fpna_ok, jobs_ok, stack_ok, mid_ok, m) ==
    [size_ok |-> size_ok, growth_ok |-> growth_ok, fpna_ok |-> fpna_ok,
     jobs_ok |-> jobs_ok, stack_ok |-> stack_ok, mid_ok |-> mid_ok,
     score |-> ScoreSum(size_ok, growth_ok, fpna_ok, jobs_ok, stack_ok, mid_ok),
     months_since_raise |-> MonthsSinceRaise(m)]

\* lines 232-287
compute_flags_local(row) ==
    LET emp == parse_emp_range(row.emp)
        rev == parse_money_range_usd(row.rev)
        size_ok == SizeOK(emp[1], emp[2])
        m == months_since(row.fdate)
        growth_ok == GrowthOK(row, m)
        fpna_ok == LocalFpnaCount(row) > FPNA_MIN
        jobs_ok == yn(row.hiring) /\ row.mentions > 0
        stack_ok == LocalStack(row)
        mid_ok == MidOK(rev[1], rev[2], size_ok)
    IN Flags(size_ok, growth_ok, fpna_ok, jobs_ok, stack_ok, mid_ok, m)

----------------------------------------------------------------------------
(* The network, as one enriched evaluation finds it:                       *)
(*   serp     what the search API answers: None (error, non-200, no count) *)
(*            or the count read                                            *)
(*   deny     the hosts whose robots.txt is served and holds "Disallow: /" *)
(*   home     the homepage of the company site                             *)
(*   xlinks   the links of the homepage whose href holds a careers hint    *)
(*   career   every page of the company site but the homepage              *)
(*   xpage    every page of the other host                                 *)
(*   ss, bw   the stackshare and builtwith profile pages                   *)
(* A page is "fail" (no 200 answer, or an empty body) or the patterns its  *)
(* text holds: "plain", "fpna", "sf", "lk".  A URL is [host, path].        *)

SITE == "acme.com"
OTHER_HOST == "jobs.other.com"
STACKSHARE == "stackshare.io"
BUILTWITH == "builtwith.com"

Url(h, p) == [host |-> h, path |-> p]
Ev(op, u) == [op |-> op, host |-> u.host, path |-> u.path]

PageAt(u, env) ==
    CASE u.host = SITE -> (IF u.path = "/" THEN env.home ELSE env.career)
      [] u.host = OTHER_HOST -> env.xpage
      [] u.host = STACKSHARE -> env.ss
      [] OTHER -> env.bw

\* fetch (lines 113-119): the text, or None
fetch(u, env) == PageAt(u, env)
NoHtml(html) == html = "fail"

\* RX_FPNA.search, RX_SF.search, RX_LK.search on a page
HasFpna(html) == html = "fpna"
HasSf(html) == html = "sf"
HasLk(html) == html = "lk"

\* allowed (lines 121-130): False only for a served robots.txt that disallows all
allowed(u, env) == u.host \notin env.deny

RECURSIVE Dedupe(_, _)
Dedupe(links, seen) ==
    IF links = <<>> THEN <<>>
    ELSE IF Head(links) \in seen THEN Dedupe(Tail(links), seen)
    ELSE <<Head(links)>> \o Dedupe(Tail(links), seen \cup {Head(links)})

\* find_career_links (lines 133-145): hinted links, then the fallbacks, deduplicated
find_career_links(env, base) ==
    LET fallback == [k \in 1..Len(CAREERS_FALLBACK) |-> Url(base, CAREERS_FALLBACK[k])]
    IN Dedupe(env.xlinks \o fallback, {})

Capped(links) == SubSeq(links, 1, Min2(LINK_CAP, Len(links)))

\* the loop of lines 157-162: [res, log]
RECURSIVE ScanFpna(_, _, _)
ScanFpna(links, k, env) ==
    IF k > Len(links) THEN [res |-> FALSE, log |-> <<>>]
    ELSE LET html == fetch(links[k], env)
             ev == Ev("fetch", links[k])
             rest == ScanFpna(links, k + 1, env)
         IN IF ~NoHtml(html) /\ HasFpna(html)
            THEN [res |-> TRUE, log |-> <<ev>>]
            ELSE [res |-> rest.res, log |-> <<ev>> \o rest.log]

\* scan_jobs_for_fpna (lines 147-165)
scan_jobs_for_fpna(env) ==
    LET base == Url(SITE, "/")
        chk == <<Ev("robots", base)>>
    IN IF ~allowed(base, env) THEN [res |-> FALSE, log |-> chk]
       ELSE LET home == fetch(base, env)
                got == chk \o <<Ev("fetch", base)>>
            IN IF NoHtml(home) THEN [res |-> FALSE, log |-> got]
               ELSE IF HasFpna(home) THEN [res |-> TRUE, log |-> got]
               ELSE LET r == ScanFpna(Capped(find_career_links(env, SITE)), 1, env)
                    IN [res |-> r.res, log |-> got \o r.log]

\* the loop of lines 175-182: [res, log], res = sf or lk
RECURSIVE ScanStack(_, _, _)
ScanStack(links, k, env) ==
    IF k > Len(links) THEN [res |-> FALSE, log |-> <<>>]
    ELSE LET html == fetch(links[k], env)
             ev == Ev("fetch", links[k])
             rest == ScanStack(links, k + 1, env)
         IN IF ~NoHtml(html) /\ (HasSf(html) \/ HasLk(html))
            THEN [res |-> TRUE, log |-> <<ev>>]
            ELSE [res |-> rest.res, log |-> <<ev>> \o rest.log]

\* detect_stack_via_jobs (lines 167-185)
detect_stack_via_jobs(env) ==
    LET base == Url(SITE, "/")
        chk == <<Ev("robots", base)>>
    IN IF ~allowed(base, env) THEN [res |-> FALSE, log |-> chk]
       ELSE LET home == fetch(base, env)
                got == chk \o <<Ev("fetch", base)>>
            IN IF NoHtml(home) THEN [res |-> FALSE, log |-> got]
               ELSE LET r == ScanStack(Capped(find_career_links(env, SITE)), 1, env)
                    IN [res |-> r.res, log |-> got \o r.log]

\* detect_stackshare (lines 187-198), detect_builtwith (lines 200-211)
DetectProfile(u, env) ==
    LET chk == <<Ev("robots", u)>>
    IN IF ~allowed(u, env) THEN [res |-> FALSE, log |-> chk]
       ELSE LET html == fetch(u, env)
            IN [res |-> ~NoHtml(html) /\ (HasSf(html) \/ HasLk(html)),
                log |-> chk \o <<Ev("fetch", u)>>]

detect_stackshare(env) == DetectProfile(Url(STACKSHARE, "/acme"), env)
detect_builtwith(env) == DetectProfile(Url(BUILTWITH, "/acme.com"), env)

\* serpapi_fpna_count (lines 213-229)
serpapi_fpna_count(company_name, key, env) ==
    IF ~key \/ company_name = "" THEN [res |-> None, log |-> <<>>]
    ELSE [res |-> env.serp, log |-> <<Ev("api", Url("serpapi.com", "/search.json"))>>]

\* lines 327-336 without the local text match: the chain of network sources
StackChain(row, env) ==
    IF row.website = "" THEN [res |-> FALSE, log |-> <<>>]
    ELSE LET j == detect_stack_via_jobs(env)
         IN IF j.res THEN j
            ELSE LET s == detect_stackshare(env)
                 IN IF s.res THEN [res |-> TRUE, log |-> j.log \o s.log]
                    ELSE LET b == detect_builtwith(env)
                         IN [res |-> b.res, log |-> j.log \o s.log \o b.log]

\* lines 335-336: if not stack_ok: the local text match
StackFallback_None(found, row) == found

StackFallback(found, row) == found \/ LocalStack(row)

\* lines 315-319
EnrichedFpna(row, key, env) ==
    LET q == IF key THEN serpapi_fpna_count(row.name, key, env)
             ELSE [res |-> None, log |-> <<>>]
        fpna_count == IF IsNone(q.res) THEN LocalFpnaCount(row) ELSE Val(q.res)
    IN [res |-> fpna_count > FPNA_MIN, log |-> q.log]

\* lines 322-324
EnrichedJobs(row, env) ==
    IF row.website = "" THEN [res |-> FALSE, log |-> <<>>]
    ELSE scan_jobs_for_fpna(env)

\* compute_flags_enriched (lines 289-357): [flags, log]
compute_flags_enriched(row, key, env) ==
    LET emp == parse_emp_range(row.emp)
        rev == parse_money_range_usd(row.rev)
        size_ok == SizeOK(emp[1], emp[2])
        m == months_since(row.fdate)
        growth_ok == GrowthOK(row, m)
        f == EnrichedFpna(row, key, env)
        j == EnrichedJobs(row, env)
        s == StackChain(row, env)
        stack_ok == StackFallback(s.res, row)
        mid_ok == MidOK(rev[1], rev[2], size_ok)
    IN [flags |-> Flags(size_ok, growth_ok, f.res, j.res, stack_ok, mid_ok, m),
        log |-> f.log \o j.log \o s.log]

----------------------------------------------------------------------------
(* pandas, as main() uses it *)

\* the order of sort_values on two columns, both ascending
LexLess(k1, k2) == k1[1] < k2[1] \/ (k1[1] = k2[1] /\ k1[2] < k2[2])

RECURSIVE InsertPos(_, _, _)
InsertPos(sorted, p, keys) ==
    IF sorted = <<>> THEN <<p>>
    ELSE IF LexLess(keys[p], keys[Head(sorted)]) THEN <<p>> \o sorted
    ELSE <<Head(sorted)>> \o InsertPos(Tail(sorted), p, keys)

RECURSIVE SortFrom(_, _, _)
SortFrom(keys, k, acc) ==
    IF k > Len(keys) THEN acc
    ELSE SortFrom(keys, k + 1, InsertPos(acc, k, keys))

\* DataFrame.sort_values(by=[two columns]): the row positions in sorted order;
\* on several columns pandas sorts by a lexsort, which is stable
sort_values(keys) == SortFrom(keys, 1, <<>>)

\* DataFrame.head(n): the first n rows; all but the last -n rows when n < 0
head(rows, n) ==
    IF n >= 0 THEN SubSeq(rows, 1, Min2(n, Len(rows)))
    ELSE SubSeq(rows, 1, Max2(0, Len(rows) + n))

Range(f) == {f[k] : k \in DOMAIN f}

----------------------------------------------------------------------------
(* Inputs *)

Text(shape, a, b, c) == [shape |-> shape, a |-> a, b |-> b, c |-> c]

Row(name, website, ipo, ftype, fdate, hiring, mentions, sf, lk, emp, rev) ==
    [name |-> name, website |-> website, ipo |-> ipo, ftype |-> ftype,
     fdate |-> fdate, hiring |-> hiring, mentions |-> mentions,
     sf |-> sf, lk |-> lk, emp |-> emp, rev |-> rev]

\* "Acme": every local criterion met, raised 2025-06-01
RowFull ==
    Row("Acme", SITE, "private", "series b", Text("dash3", 2025, 6, 1), "yes",
        3, TRUE, FALSE, Text("range", 500, 1000, 0), Text("range", 100, 500, 0))
\* "Beta": nothing met locally, no funding date
RowBare ==
    Row("Beta", SITE, "public", "seed", Text("empty", 0, 0, 0), "no",
        0, FALSE, FALSE, Text("digits", 50, 0, 0), Text("unknown", 0, 0, 0))
\* no name, no website, "200+" employees, raised "2020-01"
RowNoSite ==
    Row("", "", "private", "seed", Text("dash2", 2020, 1, 0), "hiring",
        1, FALSE, TRUE, Text("plus", 200, 0, 0), Text("plus", 2000, 0, 0))
\* "Beta" with a funding date, 15/01/2023
RowDated ==
    Row("Beta", SITE, "public", "seed", Text("slash3", 15, 1, 2023), "no",
        0, FALSE, FALSE, Text("digits", 50, 0, 0), Text("unknown", 0, 0, 0))

PipeRows == {RowFull, RowBare, RowNoSite, RowDated}

Datasets == UNION {[1..n -> PipeRows] : n \in 0..MaxRecords}
TopNs == (-1)..MaxTopN

NetEnv(serp, deny, home, xlinks, career, xpage, ss, bw) ==
    [serp |-> serp, deny |-> deny, home |-> home, xlinks |-> xlinks,
     career |-> career, xpage |-> xpage, ss |-> ss, bw |-> bw]

\* the networks the final pass meets: each of the three enriched signals can
\* come out found or not found
PipeEnvs ==
    {NetEnv(serp, deny, home, xlinks, career, "fpna", "fail", "fail") :
        serp \in {None, Some(12)},
        deny \in {{}, {SITE}},
        home \in {"fail", "plain"},
        xlinks \in {<<>>, <<Url(OTHER_HOST, "/jobs")>>},
        career \in {"plain", "sf"}}

----------------------------------------------------------------------------
(* main() (lines 360-437) *)

PipeIdle ==
    /\ pc = "idle" /\ df = <<>> /\ topn = 0 /\ serpapi_key = FALSE
    /\ total = 0 /\ i = 0 /\ base_rows = <<>> /\ enrich_index = {}
    /\ final_rows = <<>> /\ out = <<>> /\ top200 = <<>>
    /\ local_calls = <<>> /\ enriched_calls = <<>>
EvalIdle ==
    /\ e_pc = "idle" /\ e_row = <<>> /\ e_key = FALSE /\ e_env = <<>>
    /\ e_local = <<>> /\ e_enr = <<>> /\ e_log = <<>>
DateIdle ==
    /\ d_pc = "idle" /\ d_in = <<>> /\ d_m = <<>> /\ d_msr = 0

\* the arguments are parsed and the input file is readable
Init ==
    /\ pc = "load"
    /\ df \in Datasets
    /\ topn \in TopNs
    /\ serpapi_key \in BOOLEAN
    /\ total = 0 /\ i = 0
    /\ base_rows = <<>> /\ enrich_index = {}
    /\ final_rows = <<>> /\ out = <<>> /\ top200 = <<>>
    /\ local_calls = <<>> /\ enriched_calls = <<>>
    /\ EvalIdle /\ DateIdle

\* lines 377-381
Load ==
    /\ pc = "load"
    /\ total' = Len(df)
    /\ i' = 1
    /\ local_calls' = [k \in 1..Len(df) |-> 0]
    /\ enriched_calls' = [k \in 1..Len(df) |-> 0]
    /\ pc' = IF Len(df) = 0 THEN "select" ELSE "base"
    /\ UNCHANGED <<df, topn, serpapi_key, base_rows, enrich_index, final_rows,
                   out, top200>>

\* one turn of the loop of lines 385-392
BaseStep ==
    /\ pc = "base" /\ i <= total
    /\ LET flags == compute_flags_local(df[i])
       IN base_rows' = Append(base_rows,
              [Score_BASE |-> flags.score,
               BASE_MonthsSinceRaise |-> flags.months_since_raise])
    /\ local_calls' = [local_calls EXCEPT ![i] = @ + 1]
    /\ i' = IF i = total THEN 1 ELSE i + 1
    /\ pc' = IF i = total THEN "select" ELSE "base"
    /\ UNCHANGED <<df, topn, serpapi_key, total, enrich_index, final_rows,
                   out, top200, enriched_calls>>

\* line 397: by=["Score_BASE","_tie"], ascending=[False, True]
BaseSortKey_Ascending(r) == <<r.Score_BASE, r.BASE_MonthsSinceRaise>>

BaseSortKey(r) == <<0 - r.Score_BASE, r.BASE_MonthsSinceRaise>>

\* line 398: head(args.topn)
SelectHead_All(rows, n) == rows

SelectHead(rows, n) == head(rows, n)

\* lines 393-399; an empty base_rows gives a frame without columns and
\* base_df["BASE_MonthsSinceRaise"] raises KeyError
Select ==
    /\ pc = "select"
    /\ \/ /\ base_rows = <<>>
          /\ pc' = "aborted"
          /\ UNCHANGED enrich_index
       \/ /\ base_rows # <<>>
          /\ LET base_sorted == sort_values([k \in 1..Len(base_rows) |->
                                                BaseSortKey(base_rows[k])])
             IN enrich_index' = Range(SelectHead(base_sorted, topn))
          /\ pc' = "final"
    /\ UNCHANGED <<df, topn, serpapi_key, total, i, base_rows, final_rows,
                   out, top200, local_calls, enriched_calls>>

\* line 406: if i in enrich_index
UseEnriched_Never(k, index) == FALSE

UseEnriched(k, index) == k \in index

\* line 419: r["Enriched"] = (i in enrich_index)
EnrichedMarker_Always(k, index) == TRUE

EnrichedMarker(k, index) == k \in index

\* the Flags compute_flags_enriched can return for a row of the table, over
\* the networks of PipeEnvs (a constant, evaluated once)
EnrichedOutcomes ==
    [r \in PipeRows |-> [key \in BOOLEAN |->
        {compute_flags_enriched(r, key, env).flags : env \in PipeEnvs}]]

\* lines 410-420
FinalRow(k, flags, index) ==
    [idx |-> k, Score |-> flags.score,
     Size_OK |-> flags.size_ok, Growth_OK |-> flags.growth_ok,
     FPnA_OK |-> flags.fpna_ok, Jobs_OK |-> flags.jobs_ok,
     Stack_OK |-> flags.stack_ok, Mid_OK |-> flags.mid_ok,
     MonthsSinceRaise |-> flags.months_since_raise,
     Enriched |-> EnrichedMarker(k, index)]

\* one turn of the loop of lines 403-423
FinalStep ==
    /\ pc = "final" /\ i <= total
    /\ \/ /\ UseEnriched(i, enrich_index)
          /\ \E flags \in EnrichedOutcomes[df[i]][serpapi_key] :
                final_rows' = Append(final_rows, FinalRow(i, flags, enrich_index))
          /\ enriched_calls' = [enriched_calls EXCEPT ![i] = @ + 1]
          /\ UNCHANGED local_calls
       \/ /\ ~UseEnriched(i, enrich_index)
          /\ final_rows' = Append(final_rows,
                FinalRow(i, compute_flags_local(df[i]), enrich_index))
          /\ local_calls' = [local_calls EXCEPT ![i] = @ + 1]
          /\ UNCHANGED enriched_calls
    /\ i' = IF i = total THEN 1 ELSE i + 1
    /\ pc' = IF i = total THEN "export" ELSE "final"
    /\ UNCHANGED <<df, topn, serpapi_key, total, base_rows, enrich_index,
                   out, top200>>

\* line 428: by=["Score","MonthsSinceRaise"], ascending=[False, True]
FinalSortKey_ScoreOnly(r) == <<0 - r.Score, 0>>

FinalSortKey(r) == <<0 - r.Score, r.MonthsSinceRaise>>

\* lines 425-433
Export ==
    /\ pc = "export"
    /\ LET order == sort_values([k \in 1..Len(final_rows) |->
                                    FinalSortKey(final_rows[k])])
           sorted == [k \in 1..Len(order) |-> final_rows[order[k]]]
       IN /\ out' = sorted
          /\ top200' = head(sorted, TOP_ROWS)
    /\ pc' = "done"
    /\ UNCHANGED <<df, topn, serpapi_key, total, i, base_rows, enrich_index,
                   final_rows, local_calls, enriched_calls>>

Next ==
    \/ (Load /\ UNCHANGED evalVars /\ UNCHANGED dateVars)
    \/ (BaseStep /\ UNCHANGED evalVars /\ UNCHANGED dateVars)
    \/ (Select /\ UNCHANGED evalVars /\ UNCHANGED dateVars)
    \/ (FinalStep /\ UNCHANGED evalVars /\ UNCHANGED dateVars)
    \/ (Export /\ UNCHANGED evalVars /\ UNCHANGED dateVars)

Spec == Init /\ [][Next]_vars

----------------------------------------------------------------------------
(* SpecEval: both evaluators on one record, under one state of the network *)

EvalRows ==
    {Row(who[1], who[2], "private", "seed", Text("empty", 0, 0, 0),
         what[1], what[2], what[3], what[4], what[5], what[6]) :
        who \in {<<"Acme", SITE>>, <<"Acme", "">>, <<"", SITE>>},
        what \in {<<"yes", 3, TRUE, FALSE, Text("range", 500, 1000, 0),
                    Text("range", 100, 500, 0)>>,
                  <<"yes", 1, FALSE, FALSE, Text("nodigits", 0, 0, 0),
                    Text("junk", 0, 0, 0)>>,
                  <<"no", 3, FALSE, TRUE, Text("plus", 200, 0, 0),
                    Text("plus", 2000, 0, 0)>>,
                  <<"no", 0, FALSE, FALSE, Text("digits", 50, 0, 0),
                    Text("free", 80, 20, 0)>>}}

EvalLinks ==
    {<<>>,
     <<Url(OTHER_HOST, "/jobs")>>,
     <<Url(SITE, "/careers"), Url(OTHER_HOST, "/jobs"),
       Url(OTHER_HOST, "/careers"), Url(SITE, "/en/jobs")>>}

EvalEnvs ==
    {NetEnv(serp, deny, home, xlinks, career, xpage, ss, bw) :
        serp \in {None, Some(2), Some(12)},
        deny \in {{}, {SITE}, {OTHER_HOST}, {STACKSHARE}, {BUILTWITH}},
        home \in {"fail", "plain", "fpna"},
        xlinks \in EvalLinks,
        career \in {"fail", "fpna", "sf"},
        xpage \in {"plain", "fpna"},
        ss \in {"fail", "sf"},
        bw \in {"fail", "lk"}}

InitEval ==
    /\ e_pc = "start"
    /\ e_row \in EvalRows
    /\ e_key \in BOOLEAN
    /\ e_env \in EvalEnvs
    /\ (~e_key => IsNone(e_env.serp))
    /\ e_local = <<>> /\ e_enr = <<>> /\ e_log = <<>>
    /\ PipeIdle /\ DateIdle

EvalLocal ==
    /\ e_pc = "start"
    /\ e_local' = compute_flags_local(e_row)
    /\ e_pc' = "local"
    /\ UNCHANGED <<e_row, e_key, e_env, e_enr, e_log>>

EvalEnriched ==
    /\ e_pc = "local"
    /\ LET r == compute_flags_enriched(e_row, e_key, e_env)
       IN e_enr' = r.flags /\ e_log' = r.log
    /\ e_pc' = "done"
    /\ UNCHANGED <<e_row, e_key, e_env, e_local>>

NextEval ==
    \/ (EvalLocal /\ UNCHANGED pipeVars /\ UNCHANGED dateVars)
    \/ (EvalEnriched /\ UNCHANGED pipeVars /\ UNCHANGED dateVars)

SpecEval == InitEval /\ [][NextEval]_vars

----------------------------------------------------------------------------
(* SpecDate: months_since on one funding-date string *)

DateYears == {0, 1, 1192, 2024, 2025, 2026, 9999}
DateNums == {0, 1, 2, 7, 10, 12, 13, 29, 31}

Dates ==
    {Text("empty", 0, 0, 0), Text("junk", 0, 0, 0)}
    \cup {Text("dash3", y, m, d) : y \in DateYears, m \in {0, 2, 7, 10, 13}, d \in {1, 29, 31}}
    \cup {Text("slash3", a, b, y) : a \in DateNums \cup {2024}, b \in {1, 7, 13, 31},
                                    y \in {1, 2024, 2026}}
    \cup {Text("month", m, d, y) : m \in {2, 10}, d \in {0, 29}, y \in {2023, 2024}}
    \cup {Text("dash2", y, m, 0) : y \in DateYears, m \in {0, 7, 12, 13}}

InitDate ==
    /\ d_pc = "start"
    /\ d_in \in Dates
    /\ d_m = <<>> /\ d_msr = 0
    /\ PipeIdle /\ EvalIdle

\* line 252 and line 286: m = months_since(...); m if m is not None else 9999
ParseDate ==
    /\ d_pc = "start"
    /\ d_m' = months_since(d_in)
    /\ d_msr' = MonthsSinceRaise(months_since(d_in))
    /\ d_pc' = "done"
    /\ UNCHANGED d_in

NextDate == ParseDate /\ UNCHANGED pipeVars /\ UNCHANGED evalVars

SpecDate == InitDate /\ [][NextDate]_vars

----------------------------------------------------------------------------
(* Properties *)

PostSelect == {"final", "export", "done"}
Unselected == (1..total) \ enrich_index

\* row a comes before row b in the order (base score descending,
\* months_since_raise ascending, input position ascending)
Precedes(a, b) ==
    LET ra == base_rows[a]
        rb == base_rows[b]
    IN \/ ra.Score_BASE > rb.Score_BASE
       \/ /\ ra.Score_BASE = rb.Score_BASE
          /\ ra.BASE_MonthsSinceRaise < rb.BASE_MonthsSinceRaise
       \/ /\ ra.Score_BASE = rb.Score_BASE
          /\ ra.BASE_MonthsSinceRaise = rb.BASE_MonthsSinceRaise
          /\ a < b

SameBaseKey(a, b) ==
    /\ base_rows[a].Score_BASE = base_rows[b].Score_BASE
    /\ base_rows[a].BASE_MonthsSinceRaise = base_rows[b].BASE_MonthsSinceRaise

\* C1: once the selection is made, every selected row precedes every row that
\* is not selected in the order (base score descending, months_since_raise
\* ascending, input position ascending).
C1_SelectionFollowsBaseOrder ==
    pc \in PostSelect =>
        \A a \in enrich_index : \A b \in Unselected : Precedes(a, b)

\* a selection that split two rows of equal score and months, and passed over
\* an earlier row of lower score
C1_Witness ==
    /\ pc = "final"
    /\ \E a \in enrich_index : \E b \in Unselected : SameBaseKey(a, b)
    /\ \E a \in enrich_index : \E b \in Unselected :
          b < a /\ base_rows[b].Score_BASE < base_rows[a].Score_BASE

EnrichedCount(rows) == Cardinality({k \in 1..Len(rows) : rows[k].Enriched})

SelectedIs(n) ==
    /\ pc \in PostSelect => Cardinality(enrich_index) = n
    /\ pc = "done" => EnrichedCount(out) = n

\* C2 as stated: once the selection step is over, the number of rows selected,
\* and of output rows with Enriched = true, is min(topn, total_records) for
\* every integer topn.
C2_SelectsMinTopnTotal == SelectedIs(Min2(topn, total))

\* C2, amended: min(topn, total_records) for topn >= 0; for topn < 0 head(topn)
\* drops the last -topn rows and max(0, total_records + topn) rows are selected.
\* A run that stops at the selection had no record and selected none.
C2_SelectsHeadCount ==
    /\ SelectedIs(IF topn >= 0 THEN Min2(topn, total) ELSE Max2(0, total + topn))
    /\ pc = "aborted" => (total = 0 /\ enrich_index = {})

\* a finished run whose budget was smaller than the table
C2_Witness ==
    /\ pc = "done" /\ topn > 0 /\ topn < total
    /\ EnrichedCount(out) = topn

FlagsOf(r) ==
    [size_ok |-> r.Size_OK, growth_ok |-> r.Growth_OK, fpna_ok |-> r.FPnA_OK,
     jobs_ok |-> r.Jobs_OK, stack_ok |-> r.Stack_OK, mid_ok |-> r.Mid_OK,
     score |-> r.Score, months_since_raise |-> r.MonthsSinceRaise]

MarkedAsEvaluated(r) ==
    /\ r.Enriched <=> r.idx \in enrich_index
    /\ r.Enriched =>
          /\ enriched_calls[r.idx] = 1
          /\ FlagsOf(r) \in EnrichedOutcomes[df[r.idx]][serpapi_key]
    /\ ~r.Enriched =>
          /\ enriched_calls[r.idx] = 0
          /\ FlagsOf(r) = compute_flags_local(df[r.idx])

\* C3: a row of the final rows, and of the output, has Enriched = true iff its
\* index was selected; its flags are those of the enriched evaluator exactly
\* then, and those of the local evaluator otherwise.
C3_EnrichedIffSelected ==
    /\ \A k \in 1..Len(final_rows) : MarkedAsEvaluated(final_rows[k])
    /\ \A k \in 1..Len(out) : MarkedAsEvaluated(out[k])

\* an output with a row left local and an enriched row whose flags the local
\* evaluator would not have given
C3_Witness ==
    /\ pc = "done"
    /\ \E k \in 1..Len(out) : ~out[k].Enriched
    /\ \E k \in 1..Len(out) :
          out[k].Enriched /\ FlagsOf(out[k]) # compute_flags_local(df[out[k].idx])

\* every lookup of the enriched evaluation fails or is unavailable
AllLookupsFail ==
    /\ ~e_key \/ e_row.name = "" \/ IsNone(e_env.serp)
    /\ e_row.website = "" \/ SITE \in e_env.deny \/ e_env.home = "fail"
    /\ e_row.website = "" \/ STACKSHARE \in e_env.deny \/ e_env.ss = "fail"
    /\ e_row.website = "" \/ BUILTWITH \in e_env.deny \/ e_env.bw = "fail"

\* C4 as stated: when every lookup fails, the enriched evaluation returns the
\* flags and score of the local evaluation.
C4_FallbackEqualsLocal ==
    (e_pc = "done" /\ AllLookupsFail) => e_enr = e_local

\* C4, amended: when every lookup fails, size_ok, growth_ok, fpna_ok, stack_ok,
\* mid_ok and months_since_raise are those of the local evaluation; jobs_ok has
\* no local fallback and is false, and the score is lower by one when the local
\* jobs_ok is true.
C4_FallbackButJobs ==
    (e_pc = "done" /\ AllLookupsFail) =>
        e_enr = [e_local EXCEPT !.jobs_ok = FALSE,
                                !.score = e_local.score - BoolInt(e_local.jobs_ok)]

\* a record with a website and a name, a key configured, every lookup failing,
\* and the three local proxies true
C4_Witness ==
    /\ e_pc = "done" /\ AllLookupsFail
    /\ e_key /\ e_row.website # "" /\ e_row.name # ""
    /\ e_local.jobs_ok /\ e_local.fpna_ok /\ e_local.stack_ok
    /\ e_log # <<>>

Sorted(rows) ==
    \A k \in 1..(Len(rows) - 1) :
        \/ rows[k].Score > rows[k + 1].Score
        \/ /\ rows[k].Score = rows[k + 1].Score
           /\ rows[k].MonthsSinceRaise <= rows[k + 1].MonthsSinceRaise

\* C5: in the output, Score never increases from a row to the next and, where
\* it stays equal, MonthsSinceRaise never decreases; the keys are the final ones.
C5_OutputSorted ==
    pc = "done" => (Len(out) = total /\ Sorted(out) /\ Sorted(top200))

\* an output where enrichment changed a score, with two rows of equal score
\* and different months next to each other
C5_Witness ==
    /\ pc = "done"
    /\ \E k \in 1..Len(out) : out[k].Score # base_rows[out[k].idx].Score_BASE
    /\ \E k \in 1..(Len(out) - 1) :
          /\ out[k].Score = out[k + 1].Score
          /\ out[k].MonthsSinceRaise < out[k + 1].MonthsSinceRaise
          /\ out[k].idx > out[k + 1].idx

FlagNames == {"size_ok", "growth_ok", "fpna_ok", "jobs_ok", "stack_ok", "mid_ok"}
TrueFlags(fl) == Cardinality({n \in FlagNames : fl[n]})

\* C6: for both evaluators and every outcome of the detectors, score is in
\* 0..6 and is the number of true flags of the returned Flags.
C6_ScoreCountsFlags ==
    /\ e_pc \in {"local", "done"} =>
          e_local.score \in 0..6 /\ e_local.score = TrueFlags(e_local)
    /\ e_pc = "done" =>
          e_enr.score \in 0..6 /\ e_enr.score = TrueFlags(e_enr)

\* an evaluation where the detectors found what the text did not
C6_Witness ==
    /\ e_pc = "done"
    /\ e_enr.score = 4 /\ e_local.score = 1
    /\ e_enr.mid_ok /\ ~e_local.jobs_ok

\* C7 as stated: every readable table, of any number of records, is run to
\* completion and both outputs are written.
C7_RunCompletes == pc # "aborted"

\* C8 as stated: months_since_raise is the sentinel exactly when the date is
\* empty or matches no format; for a date that parses it is >= 0 and below
\* the sentinel.
C8_SentinelOnlyForUnknown ==
    d_pc = "done" =>
        /\ d_msr = SENTINEL <=> IsNone(d_m)
        /\ ~IsNone(d_m) => (d_msr >= 0 /\ d_msr < SENTINEL)

\* C9 as stated: every page fetch comes after a permission check of the host
\* of that page, and no page is fetched from a host that disallows everything.
C9_FetchAfterPermission ==
    \A k \in 1..Len(e_log) :
        e_log[k].op = "fetch" =>
            /\ \E j \in 1..(k - 1) :
                  e_log[j].op = "robots" /\ e_log[j].host = e_log[k].host
            /\ e_log[k].host \notin e_env.deny

Appended(k) == Cardinality({p \in 1..Len(final_rows) : final_rows[p].idx = k})
Written(k) == Cardinality({p \in 1..Len(out) : out[p].idx = k})

EvaluatedOnce(localOfUnselected) ==
    pc = "done" =>
        \A k \in 1..total :
            /\ local_calls[k] = (IF k \in enrich_index THEN 1 ELSE localOfUnselected)
            /\ enriched_calls[k] = (IF k \in enrich_index THEN 1 ELSE 0)
            /\ Appended(k) = 1 /\ Written(k) = 1

\* C10 as stated: in a run every record is evaluated once by the local
\* evaluator, once by the enriched one iff selected, and appended once.
C10_OneLocalEvaluation == EvaluatedOnce(1)

\* C10, amended: a selected record is evaluated once by the local evaluator
\* (base pass) and once by the enriched one; a record that is not selected is
\* evaluated by the local evaluator twice, in the base pass and again in the
\* final pass, and never by the enriched one; each is appended once.
C10_LocalAgainWhenUnselected == EvaluatedOnce(2)

\* a finished run with a selected and an unselected record
C10_Witness ==
    /\ pc = "done"
    /\ enrich_index # {} /\ Unselected # {}
    /\ \A k \in Unselected : local_calls[k] = 2

====
